---- MODULE Spec2Model ----
(***************************************************************************)
(* A model of angr's function manager (src/angr/functionmanager.py):       *)
(* the per-function ledger `Function` and the address-keyed registry       *)
(* `FunctionManager` with its inter-procedural call graph.                 *)
(*                                                                         *)
(* Python dicts are TLA+ functions whose DOMAIN is the set of keys, Python *)
(* sets are sets, Python lists are sequences, and a networkx.DiGraph is a  *)
(* record of its node set and of its edge dict (ordered pair -> attribute  *)
(* dict).  A value returned to a caller carries its Python type: None, an *)
(* int (an address), a Function or a tuple.                                *)
(***************************************************************************)
EXTENDS Integers, Sequences, FiniteSets, TLC

\* Bounds of the model.
NumAddrs == 2
NumOffsets == 2
MaxSteps == 2
MaxFnSteps == 3

Addr == 0 .. (NumAddrs - 1)
Offsets == { 4 * k : k \in 1 .. NumOffsets }

\* function_map, interfunction_graph: the fields of the FunctionManager.
\* func: a Function object constructed on its own, Function(addr).
\* ret: what the last call returned.
\* passed: the offsets passed to func's add_argument_register and
\* add_argument_stack_variable so far, in call order (history).
\* steps: the number of calls made so far.
VARIABLES function_map, interfunction_graph, func, ret, passed, steps, par

vars == <<function_map, interfunction_graph, func, ret, passed, steps, par>>

\* Python values by type: None, an int, a Function object, a tuple.
None == [type |-> "NoneType", val |-> 0]
IntVal(n) == [type |-> "int", val |-> n]
ObjVal(fn) == [type |-> "Function", val |-> fn]
TupleVal(t) == [type |-> "tuple", val |-> t]

(***************************************************************************)
(* networkx.DiGraph, as far as functionmanager.py uses it.                 *)
(***************************************************************************)
EmptyDict == [k \in {} |-> 0]

\* Mutant: the keys of old are kept.
DictUpdate_keep_old(old, new) ==
    [k \in (DOMAIN old) \cup (DOMAIN new) |-> IF k \in DOMAIN old THEN old[k] ELSE new[k]]

\* dict.update: the keys of new override those of old.
DictUpdate(old, new) ==
    [k \in (DOMAIN old) \cup (DOMAIN new) |-> IF k \in DOMAIN new THEN new[k] ELSE old[k]]

DiGraph == [node |-> {}, edge |-> EmptyDict]

\* DiGraph.add_node(n): no-op on a node already present.
DiGraph_add_node(g, n) == [g EXCEPT !.node = @ \cup {n}]

\* DiGraph.add_edge(u, v, **attr): adds both endpoints; one attribute dict per
\* ordered pair, updated with attr when the edge is already there.
DiGraph_add_edge(g, u, v, attr) ==
    LET old == IF <<u, v>> \in DOMAIN g.edge THEN g.edge[<<u, v>>] ELSE EmptyDict
    IN  [node |-> g.node \cup {u, v},
         edge |-> [e \in (DOMAIN g.edge) \cup {<<u, v>>} |->
                     IF e = <<u, v>> THEN DictUpdate(old, attr) ELSE g.edge[e]]]

DiGraph_nodes(g) == g.node
DiGraph_edges(g) == DOMAIN g.edge
DiGraph_has_edge(g, u, v) == <<u, v>> \in DOMAIN g.edge
DiGraph_number_of_edges(g) == Cardinality(DOMAIN g.edge)

(***************************************************************************)
(* class Function                                                          *)
(***************************************************************************)
\* Mutant: the address is not stored.
Function_init_no_addr(addr) ==
    [ _transition_graph         |-> DiGraph,
      _ret_sites                |-> {},
      _call_sites               |-> EmptyDict,
      _retn_addr_to_call_site   |-> EmptyDict,
      _addr                     |-> 0,
      name                      |-> None,
      _argument_registers       |-> << >>,
      _argument_stack_variables |-> << >>,
      _bp_on_stack              |-> FALSE,
      _retaddr_on_stack         |-> FALSE,
      _sp_difference            |-> 0 ]

Function_init(addr) ==
    [ _transition_graph         |-> DiGraph,
      _ret_sites                |-> {},
      _call_sites               |-> EmptyDict,
      _retn_addr_to_call_site   |-> EmptyDict,
      _addr                     |-> addr,
      name                      |-> None,
      _argument_registers       |-> << >>,
      _argument_stack_variables |-> << >>,
      _bp_on_stack              |-> FALSE,
      _retaddr_on_stack         |-> FALSE,
      _sp_difference            |-> 0 ]

startpoint(fn) == fn._addr

endpoints(fn) == fn._ret_sites

Function_transit_to(fn, from_addr, to_addr) ==
    [fn EXCEPT !._transition_graph =
        DiGraph_add_edge(@, from_addr, to_addr, [type |-> "transition"])]

\* Mutant: the edge is tagged as an ordinary transition.
Function_return_from_call_as_transition(fn, first_block_addr, to_addr) ==
    [fn EXCEPT !._transition_graph =
        DiGraph_add_edge(@, first_block_addr, to_addr, [type |-> "transition"])]

Function_return_from_call(fn, first_block_addr, to_addr) ==
    [fn EXCEPT !._transition_graph =
        DiGraph_add_edge(@, first_block_addr, to_addr, [type |-> "return_from_call"])]

add_block(fn, addr) ==
    [fn EXCEPT !._transition_graph = DiGraph_add_node(@, addr)]

\* Mutant: the set of return sites is assigned, not added to.
add_return_site_assigned(fn, return_site_addr) ==
    [fn EXCEPT !._ret_sites = {return_site_addr}]

add_return_site(fn, return_site_addr) ==
    [fn EXCEPT !._ret_sites = @ \cup {return_site_addr}]

\* dict[key] = value
DictSet(d, key, value) ==
    [k \in (DOMAIN d) \cup {key} |-> IF k = key THEN value ELSE d[k]]

\* Mutant: a call site already registered is not overwritten.
add_call_site_first_wins(fn, call_site_addr, call_target_addr, retn_addr) ==
    IF call_site_addr \in DOMAIN fn._call_sites
    THEN fn
    ELSE [fn EXCEPT
            !._call_sites = DictSet(@, call_site_addr, <<call_target_addr, retn_addr>>),
            !._retn_addr_to_call_site = DictSet(@, retn_addr, call_site_addr)]

\* Mutant: the reverse index is not written.
add_call_site_no_reverse(fn, call_site_addr, call_target_addr, retn_addr) ==
    [fn EXCEPT
        !._call_sites = DictSet(@, call_site_addr, <<call_target_addr, retn_addr>>)]

add_call_site(fn, call_site_addr, call_target_addr, retn_addr) ==
    [fn EXCEPT
        !._call_sites = DictSet(@, call_site_addr, <<call_target_addr, retn_addr>>),
        !._retn_addr_to_call_site = DictSet(@, retn_addr, call_site_addr)]

get_call_sites(fn) == DOMAIN fn._call_sites

get_call_target(fn, callsite_addr) ==
    IF callsite_addr \in DOMAIN fn._call_sites
    THEN IntVal(fn._call_sites[callsite_addr][1])
    ELSE None

get_call_return(fn, callsite_addr) ==
    IF callsite_addr \in DOMAIN fn._call_sites
    THEN IntVal(fn._call_sites[callsite_addr][2])
    ELSE None

basic_blocks(fn) == DiGraph_nodes(fn._transition_graph)

transition_graph(fn) == fn._transition_graph

\* x in list
InList(x, list) == \E i \in 1 .. Len(list) : list[i] = x

\* Mutant: the offset is appended without the membership test.
add_argument_register_always(fn, reg_offset) ==
    [fn EXCEPT !._argument_registers = Append(@, reg_offset)]

\* Mutant: the list is started again when the offset is new.
add_argument_register_restarted(fn, reg_offset) ==
    IF InList(reg_offset, fn._argument_registers) THEN fn
    ELSE [fn EXCEPT !._argument_registers = <<reg_offset>>]

add_argument_register(fn, reg_offset) ==
    IF ~InList(reg_offset, fn._argument_registers)
    THEN [fn EXCEPT !._argument_registers = Append(@, reg_offset)]
    ELSE fn

\* Mutant: the offset is appended without the membership test.
add_argument_stack_variable_always(fn, stack_var_offset) ==
    [fn EXCEPT !._argument_stack_variables = Append(@, stack_var_offset)]

add_argument_stack_variable(fn, stack_var_offset) ==
    IF ~InList(stack_var_offset, fn._argument_stack_variables)
    THEN [fn EXCEPT !._argument_stack_variables = Append(@, stack_var_offset)]
    ELSE fn

arguments(fn) == <<fn._argument_registers, fn._argument_stack_variables>>

\* The values given to the property setters.
SpDifferences == {0} \cup Offsets

\* Property bp_on_stack and its setter.
bp_on_stack(fn) == fn._bp_on_stack
set_bp_on_stack(fn, value) == [fn EXCEPT !._bp_on_stack = value]

\* Property retaddr_on_stack and its setter.
retaddr_on_stack(fn) == fn._retaddr_on_stack
set_retaddr_on_stack(fn, value) == [fn EXCEPT !._retaddr_on_stack = value]

\* Property sp_difference and its setter.
sp_difference(fn) == fn._sp_difference
set_sp_difference(fn, value) == [fn EXCEPT !._sp_difference = value]

\* Mutant: off by one.
has_return_more_than_one(fn) == Cardinality(fn._ret_sites) > 1

has_return(fn) == Cardinality(fn._ret_sites) > 0

(***************************************************************************)
(* class FunctionManager                                                   *)
(***************************************************************************)
\* A FunctionManager: its function map and its inter-procedural graph.
FunctionManager_init == [_function_map |-> EmptyDict, interfunction_graph |-> DiGraph]

\* Mutant: the entry is not added as a block of the new Function.
_create_function_no_block(m, function_addr) ==
    IF function_addr \notin DOMAIN m._function_map
    THEN [m EXCEPT !._function_map = DictSet(@, function_addr, Function_init(function_addr))]
    ELSE m

\* Mutant: the Function is created without the membership test.
_create_function_always(m, function_addr) ==
    [m EXCEPT !._function_map =
        DictSet(@, function_addr, add_block(Function_init(function_addr), function_addr))]

\* Mutant: the membership test is inverted.
_create_function_if_exist(m, function_addr) ==
    IF function_addr \in DOMAIN m._function_map
    THEN [m EXCEPT !._function_map =
            DictSet(@, function_addr, add_block(Function_init(function_addr), function_addr))]
    ELSE m

_create_function_if_not_exist(m, function_addr) ==
    IF function_addr \notin DOMAIN m._function_map
    THEN [m EXCEPT !._function_map =
            DictSet(@, function_addr, add_block(Function_init(function_addr), function_addr))]
    ELSE m

\* Mutant: a Function is created for the target of the call too.
FunctionManager_call_to_creates_target(m, function_addr, from_addr, to_addr, retn_addr) ==
    LET m1 == _create_function_if_not_exist(_create_function_if_not_exist(m, to_addr), function_addr)
    IN  [m1 EXCEPT
            !._function_map[function_addr] = add_call_site(@, from_addr, to_addr, retn_addr),
            !.interfunction_graph = DiGraph_add_edge(@, function_addr, to_addr, EmptyDict)]

\* Mutant: the edge of the inter-procedural graph is not added.
FunctionManager_call_to_no_edge(m, function_addr, from_addr, to_addr, retn_addr) ==
    LET m1 == _create_function_if_not_exist(m, function_addr)
    IN  [m1 EXCEPT
            !._function_map[function_addr] = add_call_site(@, from_addr, to_addr, retn_addr)]

\* Mutant: the edge is added from the target to the function.
FunctionManager_call_to_reversed(m, function_addr, from_addr, to_addr, retn_addr) ==
    LET m1 == _create_function_if_not_exist(m, function_addr)
    IN  [m1 EXCEPT
            !._function_map[function_addr] = add_call_site(@, from_addr, to_addr, retn_addr),
            !.interfunction_graph = DiGraph_add_edge(@, to_addr, function_addr, EmptyDict)]

FunctionManager_call_to(m, function_addr, from_addr, to_addr, retn_addr) ==
    LET m1 == _create_function_if_not_exist(m, function_addr)
    IN  [m1 EXCEPT
            !._function_map[function_addr] = add_call_site(@, from_addr, to_addr, retn_addr),
            !.interfunction_graph = DiGraph_add_edge(@, function_addr, to_addr, EmptyDict)]

\* Mutant: a return target that is given is recorded as a block.
FunctionManager_return_from_with_target(m, function_addr, from_addr, to_addr) ==
    LET m1 == _create_function_if_not_exist(m, function_addr)
    IN  [m1 EXCEPT !._function_map[function_addr] =
            IF to_addr = None THEN add_return_site(@, from_addr)
            ELSE add_block(add_return_site(@, from_addr), to_addr.val)]

\* to_addr is None when the caller omits it.
FunctionManager_return_from(m, function_addr, from_addr, to_addr) ==
    LET m1 == _create_function_if_not_exist(m, function_addr)
    IN  [m1 EXCEPT !._function_map[function_addr] = add_return_site(@, from_addr)]

FunctionManager_transit_to(m, function_addr, from_addr, to_addr) ==
    LET m1 == _create_function_if_not_exist(m, function_addr)
    IN  [m1 EXCEPT !._function_map[function_addr] = Function_transit_to(@, from_addr, to_addr)]

FunctionManager_return_from_call(m, function_addr, first_block_addr, to_addr) ==
    LET m1 == _create_function_if_not_exist(m, function_addr)
    IN  [m1 EXCEPT !._function_map[function_addr] =
                       Function_return_from_call(@, first_block_addr, to_addr)]

functions(m) == m._function_map

\* function(addr): the Function, or None; never creates one.
function(m, addr) ==
    IF addr \in DOMAIN m._function_map THEN ObjVal(m._function_map[addr]) ELSE None

\* The manager of the current state.
self == [_function_map |-> function_map, interfunction_graph |-> interfunction_graph]

\* The callers of the manager that may be inside an event at the same time.
Writers == {1, 2}

\* A networkx.DiGraph by the three dicts it is made of: succ (the adjacency,
\* node -> node -> attribute dict of the edge), pred (the same, reversed) and
\* node (node -> attribute dict of the node, always empty here).  An attribute
\* dict of an edge is an object: the dicts hold its identity.
DiGraph_dicts == [succ |-> EmptyDict, pred |-> EmptyDict, node |-> {}]

\* No Function held apart from the function map.
NoHeld == [fn |-> Function_init(0), g |-> DiGraph_dicts]

\* A caller outside every event.
\* absent is the outcome of its last test of line 224; live says that the
\* Function it holds is the one the function map holds; held is the Function
\* it holds when that one is no longer in the function map; datadict is the
\* attribute dict it has got inside add_edge.
Idle == [pc |-> "idle", op |-> "none", function_addr |-> 0, from_addr |-> 0, absent |-> FALSE,
         live |-> FALSE, held |-> NoHeld, datadict |-> 0]

\* All callers idle, no event completed, no Function replaced, no caller
\* stepped while the other was inside _create_function_if_not_exist.  ig and
\* tg are the dicts of the inter-procedural graph and of the transition graph
\* of each Function of the function map, heap the attribute dicts of edges.
Callers == [w |-> [i \in Writers |-> Idle], done |-> {}, replaced |-> FALSE, split |-> FALSE,
            ig |-> DiGraph_dicts, tg |-> EmptyDict, heap |-> EmptyDict]

\* FunctionManager.__init__; func is not used by the manager.
Init ==
    /\ function_map = FunctionManager_init._function_map
    /\ interfunction_graph = FunctionManager_init.interfunction_graph
    /\ func = Function_init(0)
    /\ ret = None
    /\ passed = [reg |-> << >>, stack |-> << >>]
    /\ steps = 0
    /\ par = Callers

\* A call of a method of the manager leaves it as new and returns result.
ManagerCall(new, result) ==
    /\ steps < MaxSteps
    /\ function_map' = new._function_map
    /\ interfunction_graph' = new.interfunction_graph
    /\ ret' = result
    /\ steps' = steps + 1
    /\ UNCHANGED <<func, passed, par>>

\* The four events of the recovery driver; each returns None.
call_to(function_addr, from_addr, to_addr, retn_addr) ==
    ManagerCall(FunctionManager_call_to(self, function_addr, from_addr, to_addr, retn_addr), None)

return_from(function_addr, from_addr, to_addr) ==
    ManagerCall(FunctionManager_return_from(self, function_addr, from_addr, to_addr), None)

transit_to(function_addr, from_addr, to_addr) ==
    ManagerCall(FunctionManager_transit_to(self, function_addr, from_addr, to_addr), None)

return_from_call(function_addr, first_block_addr, to_addr) ==
    ManagerCall(FunctionManager_return_from_call(self, function_addr, first_block_addr, to_addr), None)

\* Mutant: function(addr) creates the Function it does not find.
Lookup_creating(addr) ==
    LET m1 == _create_function_if_not_exist(self, addr)
    IN  ManagerCall(m1, function(m1, addr))

\* A call of function(addr): the caller receives the Function or None.
Lookup(addr) == ManagerCall(self, function(self, addr))

OptAddr == {None} \cup {IntVal(x) : x \in Addr}

RegistryEvent ==
    \/ \E f, a, b, r \in Addr : call_to(f, a, b, r)
    \/ \E f, a \in Addr : \E t \in OptAddr : return_from(f, a, t)
    \/ \E f, a, b \in Addr : transit_to(f, a, b)
    \/ \E f, a, b \in Addr : return_from_call(f, a, b)
    \/ \E a \in Addr : Lookup(a)

(***************************************************************************)
(* Calls of the methods of a Function held by the registry (a downstream   *)
(* pass obtains it from function(addr) or from functions).                 *)
(***************************************************************************)
\* The call fn.method(...) on the record of f leaves it as new and returns result.
RecordCall(f, new, result) ==
    /\ steps < MaxSteps
    /\ f \in DOMAIN function_map
    /\ function_map' = [function_map EXCEPT ![f] = new]
    /\ ret' = result
    /\ steps' = steps + 1
    /\ UNCHANGED <<interfunction_graph, func, passed, par>>

rec_add_block(f, addr) ==
    RecordCall(f, add_block(function_map[f], addr), None)

rec_add_return_site(f, addr) ==
    RecordCall(f, add_return_site(function_map[f], addr), None)

rec_add_call_site(f, a, b, r) ==
    RecordCall(f, add_call_site(function_map[f], a, b, r), None)

rec_add_argument_register(f, off) ==
    RecordCall(f, add_argument_register(function_map[f], off), None)

rec_add_argument_stack_variable(f, off) ==
    RecordCall(f, add_argument_stack_variable(function_map[f], off), None)

\* The property setters; an assignment returns nothing.
rec_set_bp_on_stack(f, value) ==
    RecordCall(f, set_bp_on_stack(function_map[f], value), None)

rec_set_retaddr_on_stack(f, value) ==
    RecordCall(f, set_retaddr_on_stack(function_map[f], value), None)

rec_set_sp_difference(f, value) ==
    RecordCall(f, set_sp_difference(function_map[f], value), None)

RecordEvent ==
    \E f \in Addr :
        \/ \E v \in BOOLEAN : rec_set_bp_on_stack(f, v)
        \/ \E v \in BOOLEAN : rec_set_retaddr_on_stack(f, v)
        \/ \E v \in SpDifferences : rec_set_sp_difference(f, v)
        \/ \E a \in Addr : rec_add_block(f, a)
        \/ \E a \in Addr : rec_add_return_site(f, a)
        \/ \E a, b, r \in Addr : rec_add_call_site(f, a, b, r)
        \/ \E o \in Offsets : rec_add_argument_register(f, o)
        \/ \E o \in Offsets : rec_add_argument_stack_variable(f, o)

Next == RegistryEvent \/ RecordEvent

Spec == Init /\ [][Next]_vars

\* The argument mutators on a Function of the registry, for runs that go on
\* after an argument was added.
RecordArgumentCall(f, new) ==
    /\ steps < MaxFnSteps
    /\ f \in DOMAIN function_map
    /\ function_map' = [function_map EXCEPT ![f] = new]
    /\ ret' = None
    /\ steps' = steps + 1
    /\ UNCHANGED <<interfunction_graph, func, passed, par>>

arg_add_argument_register(f, off) ==
    RecordArgumentCall(f, add_argument_register(function_map[f], off))

arg_add_argument_stack_variable(f, off) ==
    RecordArgumentCall(f, add_argument_stack_variable(function_map[f], off))

RecordArgumentEvent ==
    \E f \in Addr : \E o \in Offsets :
        \/ arg_add_argument_register(f, o)
        \/ arg_add_argument_stack_variable(f, o)

\* The registry and its Functions, with argument lists that grow past one
\* element.
SpecAccumulate == Init /\ [][Next \/ RecordArgumentEvent]_vars

\* The registry driven by its four events and its lookup only.
SpecRegistry == Init /\ [][RegistryEvent]_vars

(***************************************************************************)
(* A Function object on its own: Function(addr), then calls of its methods.*)
(***************************************************************************)
InitFunction ==
    /\ function_map = FunctionManager_init._function_map
    /\ interfunction_graph = FunctionManager_init.interfunction_graph
    /\ func \in {Function_init(a) : a \in Addr}
    /\ ret = None
    /\ passed = [reg |-> << >>, stack |-> << >>]
    /\ steps = 0
    /\ par = Callers

\* The call func.method(...) leaves the object as new and returns result.
FunctionCall(new, result) ==
    /\ steps < MaxFnSteps
    /\ func' = new
    /\ ret' = result
    /\ steps' = steps + 1
    /\ UNCHANGED <<function_map, interfunction_graph, par>>

fn_add_call_site(a, b, r) ==
    FunctionCall(add_call_site(func, a, b, r), None) /\ UNCHANGED passed

fn_get_call_target(a) ==
    FunctionCall(func, get_call_target(func, a)) /\ UNCHANGED passed

fn_get_call_return(a) ==
    FunctionCall(func, get_call_return(func, a)) /\ UNCHANGED passed

fn_add_argument_register(o) ==
    /\ FunctionCall(add_argument_register(func, o), None)
    /\ passed' = [passed EXCEPT !.reg = Append(@, o)]

fn_add_argument_stack_variable(o) ==
    /\ FunctionCall(add_argument_stack_variable(func, o), None)
    /\ passed' = [passed EXCEPT !.stack = Append(@, o)]

fn_arguments ==
    FunctionCall(func, TupleVal(arguments(func))) /\ UNCHANGED passed

fn_set_bp_on_stack(value) ==
    FunctionCall(set_bp_on_stack(func, value), None) /\ UNCHANGED passed

fn_set_retaddr_on_stack(value) ==
    FunctionCall(set_retaddr_on_stack(func, value), None) /\ UNCHANGED passed

fn_set_sp_difference(value) ==
    FunctionCall(set_sp_difference(func, value), None) /\ UNCHANGED passed

\* Call sites registered and looked up on one Function.
CallSiteEvent ==
    \/ \E a, b, r \in Addr : fn_add_call_site(a, b, r)
    \/ \E a \in Addr : fn_get_call_target(a)
    \/ \E a \in Addr : fn_get_call_return(a)

SpecCallSites == InitFunction /\ [][CallSiteEvent]_vars

\* Argument locations registered and read, and the stack properties set, on
\* one Function.
ArgumentEvent ==
    \/ \E v \in BOOLEAN : fn_set_bp_on_stack(v)
    \/ \E v \in BOOLEAN : fn_set_retaddr_on_stack(v)
    \/ \E v \in SpDifferences : fn_set_sp_difference(v)
    \/ \E o \in Offsets : fn_add_argument_register(o)
    \/ \E o \in Offsets : fn_add_argument_stack_variable(o)
    \/ fn_arguments

SpecArguments == InitFunction /\ [][ArgumentEvent]_vars

(***************************************************************************)
(* Two callers inside the events of one FunctionManager, statement by      *)
(* statement.  Nothing in the code keeps a caller out while the other is   *)
(* between two lines of an event, or between two statements of add_node or *)
(* add_edge of a graph.  A caller that has looked its Function up (lines   *)
(* 226, 230, 235, 239, 243) holds that object while the method runs; when  *)
(* line 225 of the other caller stores a new Function under the same       *)
(* address, the object held is no longer in the function map and what is   *)
(* written to it does not show in the registry.  With two callers, one     *)
(* caller at most holds such an object.                                    *)
(*                                                                         *)
(* networkx.DiGraph (1.x), the statements of the two methods called:       *)
(*   add_node(n):        if n not in self.succ:                            *)
(*                           self.succ[n] = {}                             *)
(*                           self.pred[n] = {}                             *)
(*                           self.node[n] = attr_dict                      *)
(*                       else:                                             *)
(*                           self.node[n].update(attr_dict)                *)
(*   add_edge(u, v, **attr):                                               *)
(*                       if u not in self.succ: (the three assignments)    *)
(*                       if v not in self.succ: (the three assignments)    *)
(*                       datadict = self.adj[u].get(v, {})                 *)
(*                       datadict.update(attr_dict)                        *)
(*                       self.succ[u][v] = datadict                        *)
(*                       self.pred[v][u] = datadict                        *)
(***************************************************************************)
\* The four events.  The callers race on function_addr alone, so each event
\* is made with one more address, from_addr, passed for the target and the
\* return address too.
Ops == {"call_to", "return_from", "transit_to", "return_from_call"}

\* KeyError(key), raised out of an event.
KeyError(key) == [type |-> "KeyError", val |-> key]

\* Line 224: function_addr not in self._function_map
_create_function_test(m, function_addr) == function_addr \notin DOMAIN m._function_map

\* Line 225: self._function_map[function_addr] = Function(function_addr)
_create_function_insert(m, function_addr) ==
    [m EXCEPT !._function_map = DictSet(@, function_addr, Function_init(function_addr))]

\* Line 97: self._call_sites[call_site_addr] = (call_target_addr, retn_addr)
add_call_site_97(fn, call_site_addr, call_target_addr, retn_addr) ==
    [fn EXCEPT !._call_sites = DictSet(@, call_site_addr, <<call_target_addr, retn_addr>>)]

\* Line 98: self._retn_addr_to_call_site[retn_addr] = call_site_addr
add_call_site_98(fn, call_site_addr, call_target_addr, retn_addr) ==
    [fn EXCEPT !._retn_addr_to_call_site = DictSet(@, retn_addr, call_site_addr)]

\* What nodes(), edges() and has_edge() read of a graph: the keys of node,
\* and the pairs of succ, each with the attribute dict it holds.
DiGraph_view(g, heap) ==
    [node |-> g.node,
     edge |-> [e \in {x \in Addr \X Addr :
                         x[1] \in DOMAIN g.succ /\ x[2] \in DOMAIN g.succ[x[1]]} |->
                 heap[g.succ[e[1]][e[2]]]]]

\* n not in self.succ
DiGraph_node_absent(g, n) == n \notin DOMAIN g.succ

\* self.succ[n] = {}: the edges that leave n, if it has got any, are dropped.
DiGraph_succ_assign(g, n) == [g EXCEPT !.succ = DictSet(@, n, EmptyDict)]

\* self.pred[n] = {}
DiGraph_pred_assign(g, n) == [g EXCEPT !.pred = DictSet(@, n, EmptyDict)]

\* self.node[n] = {}
DiGraph_node_assign(g, n) == [g EXCEPT !.node = @ \cup {n}]

\* self.node[n].update(attr_dict) raises KeyError(n) when node has no n.
DiGraph_node_update_raises(g, n) == n \notin g.node

\* self.adj[u].get(v, {}) finds the attribute dict of the pair.
DiGraph_edge_present(g, u, v) == v \in DOMAIN g.succ[u]

\* self.succ[u][v] = datadict
DiGraph_succ_store(g, u, v, datadict) == [g EXCEPT !.succ[u] = DictSet(@, v, datadict)]

\* self.pred[v][u] = datadict
DiGraph_pred_store(g, u, v, datadict) == [g EXCEPT !.pred[v] = DictSet(@, u, datadict)]

\* The attribute dicts that the dicts of g hold.
Refs(g) ==
    (UNION { {g.succ[u][v] : v \in DOMAIN g.succ[u]} : u \in DOMAIN g.succ })
    \cup (UNION { {g.pred[v][u] : u \in DOMAIN g.pred[v]} : v \in DOMAIN g.pred })

\* The attribute dicts that a graph or a caller holds, in p.
Used(p) ==
    Refs(p.ig)
    \cup (UNION { Refs(p.tg[a]) : a \in DOMAIN p.tg })
    \cup (UNION { Refs(p.w[i].held.g) : i \in Writers })
    \cup { p.w[i].datadict : i \in Writers }

\* An attribute dict that nothing holds is gone.
Collect(p) == [p EXCEPT !.heap = [k \in (DOMAIN p.heap) \cap Used(p) |-> p.heap[k]]]

\* A new dict object: the first identity not in use.
NewDict(heap) ==
    CHOOSE k \in 1 .. (Cardinality(DOMAIN heap) + 1) :
        k \notin DOMAIN heap /\ \A j \in 1 .. (k - 1) : j \in DOMAIN heap

InitParallel ==
    /\ function_map = FunctionManager_init._function_map
    /\ interfunction_graph = FunctionManager_init.interfunction_graph
    /\ func = Function_init(0)
    /\ ret = None
    /\ passed = [reg |-> << >>, stack |-> << >>]
    /\ steps = 0
    /\ par = Callers

\* The event that caller i is in.
EventOf(i) ==
    [op |-> par.w[i].op, function_addr |-> par.w[i].function_addr, from_addr |-> par.w[i].from_addr]

\* The add_edge call of the event of caller i: line 231 on the
\* inter-procedural graph for call_to, line 68 or 71 on the transition graph
\* of the Function held for transit_to and return_from_call.
EdgeU(i) == IF par.w[i].op = "call_to" THEN par.w[i].function_addr ELSE par.w[i].from_addr
EdgeV(i) == par.w[i].from_addr
EdgeAttr(i) ==
    CASE par.w[i].op = "call_to" -> EmptyDict
      [] par.w[i].op = "transit_to" -> [type |-> "transition"]
      [] par.w[i].op = "return_from_call" -> [type |-> "return_from_call"]

\* The pcs of a caller inside add_node (line 79), inside the test and the
\* assignments of the first and of the second node of add_edge, and inside
\* the last four statements of add_edge.
AddNodePcs == {"79", "79w", "79w.pred", "79w.node", "79.else"}
UPcs == {"u", "uw", "uw.pred", "uw.node"}
VPcs == {"v", "vw", "vw.pred", "vw.node"}
StorePcs == {"w", "w.update", "w.succ", "w.pred"}

\* The pcs at which a caller is inside _create_function_if_not_exist.
InCreate == {"225", "226"} \cup AddNodePcs

\* The pc after a test that finds the node absent, and after one that finds it.
PcAbsent(pc) == CASE pc = "79" -> "79w" [] pc = "u" -> "uw" [] pc = "v" -> "vw"
PcPresent(pc) == CASE pc = "79" -> "79.else" [] pc = "u" -> "v" [] pc = "v" -> "w"

\* The pcs that follow the assignment to succ, to pred and to node.
PcPred(pc) == CASE pc = "79w" -> "79w.pred" [] pc = "uw" -> "uw.pred" [] pc = "vw" -> "vw.pred"
PcNode(pc) ==
    CASE pc = "79w.pred" -> "79w.node" [] pc = "uw.pred" -> "uw.node" [] pc = "vw.pred" -> "vw.node"
PcAssigned(pc) == CASE pc = "79w.node" -> "call" [] pc = "uw.node" -> "v" [] pc = "vw.node" -> "w"

\* The node that caller i tests or assigns.
NodeOf(i) ==
    CASE par.w[i].pc \in AddNodePcs -> par.w[i].function_addr
      [] par.w[i].pc \in UPcs -> EdgeU(i)
      [] par.w[i].pc \in VPcs -> EdgeV(i)

\* Caller i is inside add_edge of the inter-procedural graph (line 231).
OnInterfunctionGraph(i) ==
    par.w[i].op = "call_to" /\ par.w[i].pc \in UPcs \cup VPcs \cup StorePcs

\* The graph that caller i is inside: the inter-procedural graph, or the
\* transition graph of the Function it holds.
GraphOf(i) ==
    IF OnInterfunctionGraph(i) THEN par.ig
    ELSE IF par.w[i].live THEN par.tg[par.w[i].function_addr]
    ELSE par.w[i].held.g

\* The Function that caller i holds.
HeldOf(i) ==
    IF par.w[i].live THEN function_map[par.w[i].function_addr] ELSE par.w[i].held.fn

\* Caller i after a write that leaves the Function it holds as new: the write
\* shows in the function map when that Function is still the one stored there.
Wrote(i, new) ==
    IF par.w[i].live THEN par.w[i] ELSE [par.w[i] EXCEPT !.held.fn = new]

WriteHeld(i, new) ==
    function_map' = IF par.w[i].live
                    THEN [function_map EXCEPT ![par.w[i].function_addr] = new]
                    ELSE function_map

\* Caller i after a statement that leaves the graph it is inside as g.
Kept(i, g, heap) ==
    IF OnInterfunctionGraph(i) \/ par.w[i].live THEN par.w[i]
    ELSE [par.w[i] EXCEPT
            !.held = [fn |-> [@.fn EXCEPT !._transition_graph = DiGraph_view(g, heap)],
                      g  |-> g]]

\* Caller i lets go of the Function it holds: the method has returned.
Release(w) == [w EXCEPT !.live = FALSE, !.held = NoHeld, !.datadict = 0]

\* Caller i goes on as w1; finished says that its event returns.  split
\* records that the other caller was inside _create_function_if_not_exist.
Move(i, w1, finished) ==
    par' = Collect([par EXCEPT
              !.w[i] = w1,
              !.done = IF finished THEN @ \cup {EventOf(i)} ELSE @,
              !.split = @ \/ \E j \in Writers \ {i} : par.w[j].pc \in InCreate])

\* Caller i runs a statement of add_node or add_edge that leaves the graph it
\* is inside as g and the attribute dicts as heap, and goes on as w1; the
\* call returns result when w1 is idle.
Statement(i, g, heap, w1, finished, result) ==
    LET onig == OnInterfunctionGraph(i)
        f    == par.w[i].function_addr
        p1   == [par EXCEPT
                   !.w[i] = w1,
                   !.ig = IF onig THEN g ELSE @,
                   !.tg = IF ~onig /\ par.w[i].live THEN [@ EXCEPT ![f] = g] ELSE @,
                   !.heap = heap,
                   !.done = IF finished THEN @ \cup {EventOf(i)} ELSE @,
                   !.split = @ \/ \E j \in Writers \ {i} : par.w[j].pc \in InCreate]
    IN  /\ par' = Collect(p1)
        /\ interfunction_graph' = DiGraph_view(p1.ig, heap)
        /\ function_map' =
              [a \in DOMAIN function_map |->
                 [function_map[a] EXCEPT !._transition_graph = DiGraph_view(p1.tg[a], heap)]]
        /\ ret' = result
        /\ UNCHANGED <<func, passed, steps>>

\* KeyError(key) is raised out of the event of caller i.
Raise(i, key) == Statement(i, GraphOf(i), par.heap, Idle, FALSE, KeyError(key))

\* Caller i enters an event (line 229, 234, 238 or 242) and evaluates the
\* test of line 224; when the address is there it goes on to the event's
\* second line.
par_test(i, op, function_addr, from_addr) ==
    LET absent == _create_function_test(self, function_addr)
    IN  /\ steps < MaxSteps
        /\ par.w[i].pc = "idle"
        /\ Move(i, [Idle EXCEPT !.pc = IF absent THEN "225" ELSE "call", !.op = op,
                                !.function_addr = function_addr, !.from_addr = from_addr,
                                !.absent = absent], FALSE)
        /\ steps' = steps + 1
        /\ UNCHANGED <<function_map, interfunction_graph, func, ret, passed>>

\* Caller i runs line 225: the new Function goes into the map, in place of
\* the one that may be there by now; a caller that holds the old one holds it
\* still.
par_insert(i) ==
    LET f  == par.w[i].function_addr
        m1 == _create_function_insert(self, f)
    IN  /\ par.w[i].pc = "225"
        /\ function_map' = m1._function_map
        /\ par' = Collect([par EXCEPT
                     !.w = [j \in Writers |->
                              IF j = i THEN [par.w[j] EXCEPT !.pc = "226"]
                              ELSE IF par.w[j].live /\ par.w[j].function_addr = f
                                   THEN [par.w[j] EXCEPT
                                           !.live = FALSE,
                                           !.held = [fn |-> function_map[f], g |-> par.tg[f]]]
                                   ELSE par.w[j]],
                     !.tg = DictSet(@, f, DiGraph_dicts),
                     !.replaced = @ \/ ~_create_function_test(self, f),
                     !.split = @ \/ \E j \in Writers \ {i} : par.w[j].pc \in InCreate])
        /\ UNCHANGED <<interfunction_graph, func, ret, passed, steps>>

\* Caller i runs line 226: it looks its Function up and calls add_block.
par_lookup_226(i) ==
    /\ par.w[i].pc = "226"
    /\ Move(i, [par.w[i] EXCEPT !.pc = "79", !.live = TRUE], FALSE)
    /\ UNCHANGED <<function_map, interfunction_graph, func, ret, passed, steps>>

\* Caller i inside add_node (line 79) or add_edge (line 68, 71 or 231): the
\* test for a node, n not in self.succ.
par_node_test(i) ==
    LET pc == par.w[i].pc
    IN  /\ pc \in {"79", "u", "v"}
        /\ Move(i, [par.w[i] EXCEPT
                      !.pc = IF DiGraph_node_absent(GraphOf(i), NodeOf(i))
                             THEN PcAbsent(pc) ELSE PcPresent(pc)], FALSE)
        /\ UNCHANGED <<function_map, interfunction_graph, func, ret, passed, steps>>

\* Caller i inside add_node or add_edge: self.succ[n] = {}
par_succ_assign(i) ==
    LET pc == par.w[i].pc
        g  == DiGraph_succ_assign(GraphOf(i), NodeOf(i))
    IN  /\ pc \in {"79w", "uw", "vw"}
        /\ Statement(i, g, par.heap, [Kept(i, g, par.heap) EXCEPT !.pc = PcPred(pc)], FALSE, ret)

\* Caller i inside add_node or add_edge: self.pred[n] = {}
par_pred_assign(i) ==
    LET pc == par.w[i].pc
        g  == DiGraph_pred_assign(GraphOf(i), NodeOf(i))
    IN  /\ pc \in {"79w.pred", "uw.pred", "vw.pred"}
        /\ Statement(i, g, par.heap, [Kept(i, g, par.heap) EXCEPT !.pc = PcNode(pc)], FALSE, ret)

\* Caller i inside add_node or add_edge: self.node[n] = {}; add_node returns
\* to line 226 and _create_function_if_not_exist to the event.
par_node_assign(i) ==
    LET pc == par.w[i].pc
        g  == DiGraph_node_assign(GraphOf(i), NodeOf(i))
        w1 == [Kept(i, g, par.heap) EXCEPT !.pc = PcAssigned(pc)]
    IN  /\ pc \in {"79w.node", "uw.node", "vw.node"}
        /\ Statement(i, g, par.heap, IF pc = "79w.node" THEN Release(w1) ELSE w1, FALSE, ret)

\* Caller i inside add_node, the node found in succ:
\* self.node[n].update(attr_dict), with no attribute.
par_node_update(i) ==
    /\ par.w[i].pc = "79.else"
    /\ IF DiGraph_node_update_raises(GraphOf(i), NodeOf(i))
       THEN Raise(i, NodeOf(i))
       ELSE /\ Move(i, Release([par.w[i] EXCEPT !.pc = "call"]), FALSE)
            /\ UNCHANGED <<function_map, interfunction_graph, func, ret, passed, steps>>

\* Caller i runs line 230, 235, 239 or 243: it looks its Function up and
\* calls the method.
par_lookup(i) ==
    /\ par.w[i].pc = "call"
    /\ Move(i, [par.w[i] EXCEPT !.pc = IF par.w[i].op \in {"call_to", "return_from"}
                                       THEN "method" ELSE "u",
                                !.live = TRUE], FALSE)
    /\ UNCHANGED <<function_map, interfunction_graph, func, ret, passed, steps>>

\* Caller i runs line 97 of add_call_site, or line 87 of add_return_site and
\* return_from returns.
par_method(i) ==
    LET fn == HeldOf(i)
        a  == par.w[i].from_addr
    IN  /\ par.w[i].pc = "method"
        /\ IF par.w[i].op = "call_to"
           THEN /\ WriteHeld(i, add_call_site_97(fn, a, a, a))
                /\ Move(i, [Wrote(i, add_call_site_97(fn, a, a, a)) EXCEPT !.pc = "98"], FALSE)
                /\ UNCHANGED ret
           ELSE /\ WriteHeld(i, add_return_site(fn, a))
                /\ Move(i, Idle, TRUE)
                /\ ret' = None
        /\ UNCHANGED <<interfunction_graph, func, passed, steps>>

\* Caller i runs line 98 on the Function it holds and goes on to line 231.
par_add_call_site_98(i) ==
    LET a == par.w[i].from_addr
    IN  /\ par.w[i].pc = "98"
        /\ WriteHeld(i, add_call_site_98(HeldOf(i), a, a, a))
        /\ Move(i, Release([par.w[i] EXCEPT !.pc = "u"]), FALSE)
        /\ UNCHANGED <<interfunction_graph, func, ret, passed, steps>>

\* Caller i inside add_edge: datadict = self.adj[u].get(v, {})
par_edge_get(i) ==
    LET g  == GraphOf(i)
        u  == EdgeU(i)
        v  == EdgeV(i)
        present  == DiGraph_edge_present(g, u, v)
        datadict == IF present THEN g.succ[u][v] ELSE NewDict(par.heap)
        heap     == IF present THEN par.heap ELSE DictSet(par.heap, datadict, EmptyDict)
    IN  /\ par.w[i].pc = "w"
        /\ IF DiGraph_node_absent(g, u)
           THEN Raise(i, u)
           ELSE Statement(i, g, heap,
                          [Kept(i, g, heap) EXCEPT !.pc = "w.update", !.datadict = datadict],
                          FALSE, ret)

\* Caller i inside add_edge: datadict.update(attr_dict), in place.
par_edge_update(i) ==
    LET g    == GraphOf(i)
        heap == [par.heap EXCEPT ![par.w[i].datadict] = DictUpdate(@, EdgeAttr(i))]
    IN  /\ par.w[i].pc = "w.update"
        /\ Statement(i, g, heap, [Kept(i, g, heap) EXCEPT !.pc = "w.succ"], FALSE, ret)

\* Caller i inside add_edge: self.succ[u][v] = datadict
par_succ_store(i) ==
    LET g0 == GraphOf(i)
        u  == EdgeU(i)
        g  == DiGraph_succ_store(g0, u, EdgeV(i), par.w[i].datadict)
    IN  /\ par.w[i].pc = "w.succ"
        /\ IF DiGraph_node_absent(g0, u)
           THEN Raise(i, u)
           ELSE Statement(i, g, par.heap, [Kept(i, g, par.heap) EXCEPT !.pc = "w.pred"],
                          FALSE, ret)

\* Caller i inside add_edge: self.pred[v][u] = datadict, which raises
\* KeyError(v) when pred has no v yet; else the event returns.
par_pred_store(i) ==
    LET g0 == GraphOf(i)
        v  == EdgeV(i)
        g  == DiGraph_pred_store(g0, EdgeU(i), v, par.w[i].datadict)
    IN  /\ par.w[i].pc = "w.pred"
        /\ IF v \notin DOMAIN g0.pred
           THEN Raise(i, v)
           ELSE Statement(i, g, par.heap, Idle, TRUE, None)

ParallelEvent ==
    \E i \in Writers :
        \/ \E op \in Ops : \E f, a \in Addr : par_test(i, op, f, a)
        \/ par_insert(i)
        \/ par_lookup_226(i)
        \/ par_node_test(i)
        \/ par_succ_assign(i)
        \/ par_pred_assign(i)
        \/ par_node_assign(i)
        \/ par_node_update(i)
        \/ par_lookup(i)
        \/ par_method(i)
        \/ par_add_call_site_98(i)
        \/ par_edge_get(i)
        \/ par_edge_update(i)
        \/ par_succ_store(i)
        \/ par_pred_store(i)

SpecParallel == InitParallel /\ [][ParallelEvent]_vars

(***************************************************************************)
(* Properties                                                              *)
(***************************************************************************)
\* The manager of the next state.
selfNext == [_function_map |-> function_map', interfunction_graph |-> interfunction_graph']

\* The registry holds exactly the Function that one call_to(f, a, b, r) leaves.
OneCallTo(m, f, a, b, r) == m = FunctionManager_call_to(FunctionManager_init, f, a, b, r)

\* C1: reverse-index consistency.  In every reachable state, for every key r
\* of a function's _retn_addr_to_call_site, the call site a it maps to is a
\* key of _call_sites and the return address recorded for a is r.
C1_ReverseIndexConsistent ==
    \A f \in DOMAIN function_map :
        LET fn == function_map[f]
        IN  \A r \in DOMAIN fn._retn_addr_to_call_site :
                LET a == fn._retn_addr_to_call_site[r]
                IN  /\ a \in DOMAIN fn._call_sites
                    /\ fn._call_sites[a][2] = r

\* The call sites and the reverse index of f in manager m (empty when m has no f).
CallSitesOf(m, f) ==
    IF f \in DOMAIN m._function_map THEN m._function_map[f]._call_sites ELSE EmptyDict

ReturnIndexOf(m, f) ==
    IF f \in DOMAIN m._function_map
    THEN m._function_map[f]._retn_addr_to_call_site
    ELSE EmptyDict

\* C2 as claimed: forward mirror.  In every reachable state, for every call
\* site a of a function with _call_sites[a] = (t, r), the reverse index has
\* _retn_addr_to_call_site[r] = a.
C2_ForwardMirror ==
    \A f \in DOMAIN function_map :
        LET fn == function_map[f]
        IN  \A a \in DOMAIN fn._call_sites :
                LET r == fn._call_sites[a][2]
                IN  /\ r \in DOMAIN fn._retn_addr_to_call_site
                    /\ fn._retn_addr_to_call_site[r] = a

\* Every return address recorded in _call_sites is a key of the reverse index,
\* and the reverse index maps it to a call site of the function.
C2_ReturnIndexed ==
    \A f \in DOMAIN function_map :
        LET fn == function_map[f]
        IN  \A a \in DOMAIN fn._call_sites :
                LET r == fn._call_sites[a][2]
                IN  /\ r \in DOMAIN fn._retn_addr_to_call_site
                    /\ fn._retn_addr_to_call_site[r] \in DOMAIN fn._call_sites

\* A step that writes a call site a (new, or with a new record) leaves the
\* reverse index of its return address pointing at a; a step that writes the
\* reverse index at r points it at a call site whose return address is r.
C2_LastRegisteredWins ==
    \A f \in DOMAIN function_map' :
        LET cs  == CallSitesOf(self, f)
            cs2 == CallSitesOf(selfNext, f)
            ri  == ReturnIndexOf(self, f)
            ri2 == ReturnIndexOf(selfNext, f)
        IN  /\ \A a \in DOMAIN cs2 :
                   (a \notin DOMAIN cs \/ cs[a] # cs2[a]) => ri2[cs2[a][2]] = a
            /\ \A r \in DOMAIN ri2 :
                   (r \notin DOMAIN ri \/ ri[r] # ri2[r]) => cs2[ri2[r]][2] = r

\* C2, amended: for every call site a of a function with _call_sites[a] =
\* (t, r), r is a key of _retn_addr_to_call_site and maps to a call site of
\* the function; it maps to a right after a is registered with return address
\* r, and when different call sites are registered with the same return
\* address the reverse index holds the one registered last.
C2_ForwardMirrorAmended == [] C2_ReturnIndexed /\ [][C2_LastRegisteredWins]_vars

\* Two different call sites of one function share a return address, and the
\* reverse index holds one of them.
C2_Witness ==
    \E f \in DOMAIN function_map :
        LET fn == function_map[f]
        IN  \E a, b \in DOMAIN fn._call_sites :
                /\ a # b
                /\ fn._call_sites[a][2] = fn._call_sites[b][2]
                /\ fn._retn_addr_to_call_site[fn._call_sites[a][2]] = b

\* Applying each mutator of the manager twice with the same arguments gives
\* the manager that applying it once gives.
C3_ManagerIdempotent(m) ==
    /\ \A f, a, b, r \in Addr :
          LET m1 == FunctionManager_call_to(m, f, a, b, r)
              m2 == FunctionManager_call_to(m1, f, a, b, r)
          IN  /\ m2 = m1
              /\ a \in get_call_sites(m2._function_map[f])
              /\ get_call_target(m2._function_map[f], a) = IntVal(b)
              /\ get_call_return(m2._function_map[f], a) = IntVal(r)
    /\ \A f, a \in Addr : \A t \in OptAddr :
          LET m1 == FunctionManager_return_from(m, f, a, t)
          IN  FunctionManager_return_from(m1, f, a, t) = m1
    /\ \A f, a, b \in Addr :
          LET m1 == FunctionManager_transit_to(m, f, a, b)
          IN  FunctionManager_transit_to(m1, f, a, b) = m1
    /\ \A f, a, b \in Addr :
          LET m1 == FunctionManager_return_from_call(m, f, a, b)
          IN  FunctionManager_return_from_call(m1, f, a, b) = m1

\* The same for each mutator of a Function.
C3_FunctionIdempotent(fn) ==
    /\ \A a \in Addr :
          /\ add_block(add_block(fn, a), a) = add_block(fn, a)
          /\ add_return_site(add_return_site(fn, a), a) = add_return_site(fn, a)
    /\ \A a, b \in Addr :
          /\ Function_transit_to(Function_transit_to(fn, a, b), a, b)
                = Function_transit_to(fn, a, b)
          /\ Function_return_from_call(Function_return_from_call(fn, a, b), a, b)
                = Function_return_from_call(fn, a, b)
    /\ \A a, b, r \in Addr :
          add_call_site(add_call_site(fn, a, b, r), a, b, r) = add_call_site(fn, a, b, r)
    /\ \A o \in Offsets :
          /\ add_argument_register(add_argument_register(fn, o), o)
                = add_argument_register(fn, o)
          /\ add_argument_stack_variable(add_argument_stack_variable(fn, o), o)
                = add_argument_stack_variable(fn, o)

\* C3: idempotence of mutators.  From every reachable state, applying a
\* mutating event (call_to, return_from, transit_to, return_from_call,
\* add_block, add_return_site, add_call_site, add_argument_register,
\* add_argument_stack_variable) twice with the same arguments yields the state
\* that applying it once yields; call_to(f, a, b, r) twice leaves one call
\* site a under f, with target b and return r.
C3_MutatorsIdempotent ==
    steps < MaxSteps =>
        /\ C3_ManagerIdempotent(self)
        /\ \A f \in DOMAIN function_map : C3_FunctionIdempotent(function_map[f])

\* Two calls were made and the registry is as one call_to leaves it.
C3_Witness ==
    /\ steps = 2
    /\ \E f, a, b, r \in Addr : OneCallTo(self, f, a, b, r)

\* Each of the four events, applied to manager m and naming f, leaves a
\* manager in which function(f) is a Function.
C4_EventVivifies(m) ==
    \A f, a, b \in Addr :
        /\ \A r \in Addr :
              function(FunctionManager_call_to(m, f, a, b, r), f).type = "Function"
        /\ \A t \in OptAddr :
              function(FunctionManager_return_from(m, f, a, t), f).type = "Function"
        /\ function(FunctionManager_transit_to(m, f, a, b), f).type = "Function"
        /\ function(FunctionManager_return_from_call(m, f, a, b), f).type = "Function"

\* A Function that function(f) returns is still returned after the step.
C4_RecordStays ==
    \A f \in Addr :
        function(self, f).type = "Function" => function(selfNext, f).type = "Function"

\* C4: auto-vivification.  From every reachable state, after call_to,
\* return_from, transit_to or return_from_call naming a function address f
\* (with or without a record before), function(f) returns a Function, not
\* None, and it keeps returning one after every later event.
C4_AutoVivification ==
    /\ [](steps < MaxSteps => C4_EventVivifies(self))
    /\ [][C4_RecordStays]_vars

\* One event created the only Function and the following function(a) returned it.
C4_Witness ==
    /\ steps = 2
    /\ \E a \in Addr : DOMAIN function_map = {a} /\ ret = ObjVal(function_map[a])

\* A step by function(addr) changes neither the function map nor the graph
\* and returns the Function when addr is a key, None otherwise.
C5_LookupStep ==
    \A a \in Addr :
        Lookup(a) =>
            /\ function_map' = function_map
            /\ interfunction_graph' = interfunction_graph
            /\ ret' = IF a \in DOMAIN function_map THEN ObjVal(function_map[a]) ELSE None
            /\ (ret'.type = "Function") = (a \in DOMAIN function_map')

\* C5: function(addr) is a pure query.  It returns the Function when addr is
\* a key of the function map and None otherwise, and leaves the function map,
\* every Function and the inter-procedural graph unchanged.
C5_LookupPure == [][C5_LookupStep]_vars

\* Two lookups on the empty registry returned None and created nothing.
C5_Witness ==
    /\ steps = 2
    /\ function_map = EmptyDict
    /\ interfunction_graph = DiGraph
    /\ ret = None

\* Initially no call site is known.
C6_NoneAtFirst ==
    steps = 0 =>
        \A a \in Addr : get_call_target(func, a) = None /\ get_call_return(func, a) = None

\* add_call_site(a, b, r) makes the lookups of a return b and r and leaves the
\* lookups of every other call site as they were; the lookups change nothing
\* and return what the operators compute.
C6_Step ==
    LET fn2 == func'
    IN  /\ \A a, b, r \in Addr :
              fn_add_call_site(a, b, r) =>
                  /\ get_call_target(fn2, a) = IntVal(b)
                  /\ get_call_return(fn2, a) = IntVal(r)
                  /\ \A x \in Addr \ {a} :
                        /\ get_call_target(fn2, x) = get_call_target(func, x)
                        /\ get_call_return(fn2, x) = get_call_return(func, x)
        /\ \A a \in Addr :
              /\ fn_get_call_target(a) =>
                    /\ fn2 = func
                    /\ ret' = IF a \in DOMAIN func._call_sites
                              THEN IntVal(func._call_sites[a][1]) ELSE None
              /\ fn_get_call_return(a) =>
                    /\ fn2 = func
                    /\ ret' = IF a \in DOMAIN func._call_sites
                              THEN IntVal(func._call_sites[a][2]) ELSE None

\* C6: call-site lookup is last-write-wins.  get_call_target(a) and
\* get_call_return(a) return the target and the return address of the most
\* recent add_call_site for a, None when there was none, and the lookups
\* change no state.
C6_LastWriteWins == [] C6_NoneAtFirst /\ [][C6_Step]_vars

\* Call site a was registered twice, with two return addresses, and
\* get_call_return(a) then returned the one recorded.
C6_Witness ==
    /\ steps = 3
    /\ \E a \in Addr :
          /\ DOMAIN func._call_sites = {a}
          /\ Cardinality(DOMAIN func._retn_addr_to_call_site) = 2
          /\ ret = IntVal(func._call_sites[a][2])

\* Function A of manager m has a call site whose recorded target is B.
Backed(m, A, B) ==
    \E a \in DOMAIN CallSitesOf(m, A) : CallSitesOf(m, A)[a][1] = B

\* Every recorded call target of every Function has its edge in the graph.
C7_EdgeExists ==
    \A f \in DOMAIN function_map :
        \A a \in DOMAIN function_map[f]._call_sites :
            DiGraph_has_edge(interfunction_graph, f, function_map[f]._call_sites[a][1])

\* call_to naming a pair (f, t) that already has its edge leaves the graph as
\* it is: no second edge, whatever the call site.
C7_NoParallelEdge(m) ==
    \A f, a, t, r \in Addr :
        LET g2 == FunctionManager_call_to(m, f, a, t, r).interfunction_graph
        IN  /\ DiGraph_has_edge(g2, f, t)
            /\ DiGraph_has_edge(m.interfunction_graph, f, t) =>
                  /\ g2 = m.interfunction_graph
                  /\ DiGraph_number_of_edges(g2)
                        = DiGraph_number_of_edges(m.interfunction_graph)

\* C7: call-graph edge existence and simplicity.  In every state reachable
\* through the events of the registry, the graph has the edge f -> t for every
\* call site of f whose recorded target is t, and call_to events from
\* different call sites of f to the same t leave one edge f -> t.
C7_CallGraphEdges ==
    /\ C7_EdgeExists
    /\ steps < MaxSteps => C7_NoParallelEdge(self)

\* Two call sites of one function have the same target and the graph has one edge.
C7_Witness ==
    \E f \in DOMAIN function_map :
        LET cs == function_map[f]._call_sites
        IN  /\ DOMAIN cs = {0, 1}
            /\ cs[0][1] = cs[1][1]
            /\ DiGraph_edges(interfunction_graph) = {<<f, cs[0][1]>>}
            /\ DiGraph_number_of_edges(interfunction_graph) = 1

\* C8 as claimed: every edge A -> B of the graph has A in the function map and
\* a call site of A whose currently recorded target is B.
C8_EdgeBacked ==
    \A e \in DiGraph_edges(interfunction_graph) :
        /\ e[1] \in DOMAIN function_map
        /\ Backed(self, e[1], e[2])

\* Every edge starts at a Function that has a call site.
C8_EdgeFromCaller ==
    \A e \in DiGraph_edges(interfunction_graph) :
        /\ e[1] \in DOMAIN function_map
        /\ get_call_sites(function_map[e[1]]) # {}

\* Edges are kept; an edge is backed when it is added; a backed edge stays
\* backed unless a call site with that target is overwritten with another.
C8_EdgeStep ==
    /\ DiGraph_edges(interfunction_graph) \subseteq DiGraph_edges(interfunction_graph')
    /\ \A e \in DiGraph_edges(interfunction_graph') :
          /\ e \notin DiGraph_edges(interfunction_graph) => Backed(selfNext, e[1], e[2])
          /\ (e \in DiGraph_edges(interfunction_graph)
                /\ Backed(self, e[1], e[2]) /\ ~Backed(selfNext, e[1], e[2])) =>
                \E a \in DOMAIN CallSitesOf(self, e[1]) :
                    /\ CallSitesOf(self, e[1])[a][1] = e[2]
                    /\ CallSitesOf(selfNext, e[1])[a][1] # e[2]

\* C8, amended: for every edge A -> B of the graph, A is a key of the function
\* map and its Function has at least one call site; a call site of A with
\* recorded target B exists when the edge is added and until a call site of A
\* with target B is overwritten with a different target; the edge is kept.
C8_EdgeBackedAmended == [] C8_EdgeFromCaller /\ [][C8_EdgeStep]_vars

\* A call site was overwritten with another target: the old edge is there
\* and no call site has its target.
C8_Witness ==
    \E e \in DiGraph_edges(interfunction_graph) :
        /\ e[1] \in DOMAIN function_map
        /\ get_call_sites(function_map[e[1]]) # {}
        /\ ~Backed(self, e[1], e[2])

\* The elements of a list.
Elements(list) == {list[i] : i \in 1 .. Len(list)}

\* The index of the first occurrence of x in list.
FirstIndex(x, list) ==
    CHOOSE i \in 1 .. Len(list) : list[i] = x /\ \A j \in 1 .. (i - 1) : list[j] # x

\* list holds each offset of history once, in the order of first occurrence.
DedupInOrder(list, history) ==
    /\ \A i, j \in 1 .. Len(list) : i # j => list[i] # list[j]
    /\ Elements(list) = Elements(history)
    /\ \A i, j \in 1 .. Len(list) :
          i < j => FirstIndex(list[i], history) < FirstIndex(list[j], history)

\* C9: argument dedup and order.  After any sequence of add_argument_register
\* (add_argument_stack_variable) calls the register (stack-variable) list has
\* no duplicate, holds exactly the offsets ever passed, in the order of their
\* first occurrence; neither list depends on the calls for the other, and
\* arguments returns the two lists.
C9_ArgumentsDedupInOrder ==
    /\ DedupInOrder(func._argument_registers, passed.reg)
    /\ DedupInOrder(func._argument_stack_variables, passed.stack)
    /\ ret.type = "tuple" =>
          ret.val = <<func._argument_registers, func._argument_stack_variables>>

\* add_argument_register(4), (4), (8) left the register list [4, 8].
C9_Witness ==
    /\ passed.reg = <<4, 4, 8>>
    /\ passed.stack = << >>
    /\ func._argument_registers = <<4, 8>>
    /\ func._argument_stack_variables = << >>

\* has_return is "the return-site set is not empty", and false on a new Function.
C10_Derived ==
    /\ \A f \in DOMAIN function_map :
          has_return(function_map[f]) <=> function_map[f]._ret_sites # {}
    /\ \A a \in Addr : ~has_return(Function_init(a))

\* From manager m: a Function created by call_to, transit_to or
\* return_from_call has no return; return_from and add_return_site give one.
C10_Events(m) ==
    /\ \A f, a, b \in Addr :
          /\ \A t \in OptAddr :
                has_return(FunctionManager_return_from(m, f, a, t)._function_map[f])
          /\ f \notin DOMAIN m._function_map =>
                /\ ~has_return(FunctionManager_transit_to(m, f, a, b)._function_map[f])
                /\ ~has_return(FunctionManager_return_from_call(m, f, a, b)._function_map[f])
                /\ \A r \in Addr :
                      ~has_return(FunctionManager_call_to(m, f, a, b, r)._function_map[f])
    /\ \A f \in DOMAIN m._function_map :
          \A a \in Addr : has_return(add_return_site(m._function_map[f], a))

\* has_return stays true; a Function created with a return was created by
\* return_from.
C10_Step ==
    \A f \in DOMAIN function_map' :
        /\ (f \in DOMAIN function_map /\ has_return(function_map[f])) =>
              has_return(function_map'[f])
        /\ (f \notin DOMAIN function_map /\ has_return(function_map'[f])) =>
              \E a \in Addr : \E t \in OptAddr : return_from(f, a, t)

\* C10: has_return is false right after creation (also by auto-vivification
\* through transit_to, call_to or return_from_call), equals "the return-site
\* set is not empty" in every reachable state, is true after the first
\* add_return_site / return_from, and once true stays true.
C10_HasReturn ==
    /\ [](C10_Derived /\ (steps < MaxSteps => C10_Events(self)))
    /\ [][C10_Step]_vars

\* A Function created by an edge event, without return, got its return site.
C10_Witness ==
    /\ steps = 2
    /\ \E f \in DOMAIN function_map :
          /\ DiGraph_edges(function_map[f]._transition_graph) # {}
          /\ has_return(function_map[f])
          /\ Cardinality(function_map[f]._ret_sites) = 1

\* Every key of the function map maps to the Function whose entry it is.
C11_KeyIsEntry ==
    \A e \in DOMAIN function_map : startpoint(function_map[e]) = e

\* No step changes the entry of a Function of the registry.
C11_EntryKept ==
    \A e \in DOMAIN function_map :
        /\ e \in DOMAIN function_map'
        /\ startpoint(function_map'[e]) = startpoint(function_map[e])

\* C11: entry identity.  In every reachable state each key e of the function
\* map maps to a Function whose entry is e, so no two Functions share an
\* entry, and no event changes the entry of a Function.
C11_EntryIdentity ==
    /\ [](C11_KeyIsEntry
           /\ \A e1, e2 \in DOMAIN function_map :
                 startpoint(function_map[e1]) = startpoint(function_map[e2]) => e1 = e2)
    /\ [][C11_EntryKept]_vars

\* Two Functions are registered, each under its own entry.
C11_Witness ==
    /\ DOMAIN function_map = {0, 1}
    /\ startpoint(function_map[0]) = 0
    /\ startpoint(function_map[1]) = 1

\* list is a prefix of list2.
IsPrefix(list, list2) ==
    /\ Len(list) <= Len(list2)
    /\ \A i \in 1 .. Len(list) : list[i] = list2[i]

\* Function fn2 holds everything Function fn holds.
Accumulates(fn, fn2) ==
    /\ DiGraph_nodes(fn._transition_graph) \subseteq DiGraph_nodes(fn2._transition_graph)
    /\ DiGraph_edges(fn._transition_graph) \subseteq DiGraph_edges(fn2._transition_graph)
    /\ fn._ret_sites \subseteq fn2._ret_sites
    /\ get_call_sites(fn) \subseteq get_call_sites(fn2)
    /\ IsPrefix(fn._argument_registers, fn2._argument_registers)
    /\ IsPrefix(fn._argument_stack_variables, fn2._argument_stack_variables)

\* No step removes a Function, an element of a Function or an edge of the
\* inter-procedural graph.
C12_Step ==
    /\ DOMAIN function_map \subseteq DOMAIN function_map'
    /\ \A f \in DOMAIN function_map : Accumulates(function_map[f], function_map'[f])
    /\ DiGraph_edges(interfunction_graph) \subseteq DiGraph_edges(interfunction_graph')
    /\ DiGraph_nodes(interfunction_graph) \subseteq DiGraph_nodes(interfunction_graph')

\* A Function with an argument registered loses nothing by any event on its
\* entry nor by any of its mutators.
C12_ArgumentsKept ==
    \A f \in DOMAIN function_map :
        LET fn == function_map[f]
        IN  (Len(fn._argument_registers) + Len(fn._argument_stack_variables) > 0) =>
              /\ \A a, b \in Addr :
                    /\ Accumulates(fn, FunctionManager_return_from(self, f, a, None)._function_map[f])
                    /\ Accumulates(fn, FunctionManager_transit_to(self, f, a, b)._function_map[f])
                    /\ Accumulates(fn, FunctionManager_return_from_call(self, f, a, b)._function_map[f])
                    /\ \A r \in Addr :
                          /\ Accumulates(fn, FunctionManager_call_to(self, f, a, b, r)._function_map[f])
                          /\ Accumulates(fn, add_call_site(fn, a, b, r))
                    /\ Accumulates(fn, add_block(fn, a))
                    /\ Accumulates(fn, add_return_site(fn, a))
              /\ \A o \in Offsets :
                    /\ Accumulates(fn, add_argument_register(fn, o))
                    /\ Accumulates(fn, add_argument_stack_variable(fn, o))
              /\ \A v \in BOOLEAN :
                    /\ Accumulates(fn, set_bp_on_stack(fn, v))
                    /\ Accumulates(fn, set_retaddr_on_stack(fn, v))
              /\ \A v \in SpDifferences : Accumulates(fn, set_sp_difference(fn, v))

\* C12: monotonic accumulation.  Across every step the set of registered
\* entries never shrinks, and for each Function the nodes and the (from, to)
\* edges of its transition graph, its return sites, its call-site keys and its
\* argument lists, and the edges of the inter-procedural graph, lose nothing;
\* a Function that has arguments keeps them, in order, under every event and
\* every mutator.
C12_Monotonic ==
    /\ [][C12_Step]_vars
    /\ [](steps < MaxFnSteps => C12_ArgumentsKept)

\* Three events on one Function: it was created and an argument list got an
\* element, then a second one behind the first.
C12_Witness ==
    /\ steps = 3
    /\ \E f \in DOMAIN function_map :
          \/ Len(function_map[f]._argument_registers) = 2
          \/ Len(function_map[f]._argument_stack_variables) = 2

\* A Function in a normal state: every field holds a value of the kind the
\* constructor gave it, over the addresses and offsets that were passed in.
NormalFunction(fn) ==
    /\ DiGraph_nodes(fn._transition_graph) \subseteq Addr
    /\ DiGraph_edges(fn._transition_graph) \subseteq Addr \X Addr
    /\ \A e \in DiGraph_edges(fn._transition_graph) :
          {e[1], e[2]} \subseteq DiGraph_nodes(fn._transition_graph)
    /\ fn._ret_sites \subseteq Addr
    /\ DOMAIN fn._call_sites \subseteq Addr
    /\ \A a \in DOMAIN fn._call_sites : fn._call_sites[a] \in Addr \X Addr
    /\ DOMAIN fn._retn_addr_to_call_site \subseteq Addr
    /\ \A r \in DOMAIN fn._retn_addr_to_call_site : fn._retn_addr_to_call_site[r] \in Addr
    /\ fn._addr \in Addr
    /\ fn._argument_registers \in Seq(Offsets)
    /\ fn._argument_stack_variables \in Seq(Offsets)
    /\ bp_on_stack(fn) \in BOOLEAN
    /\ retaddr_on_stack(fn) \in BOOLEAN
    /\ sp_difference(fn) \in SpDifferences

\* A manager in a normal state.
NormalManager(m) ==
    /\ DOMAIN m._function_map \subseteq Addr
    /\ \A f \in DOMAIN m._function_map : NormalFunction(m._function_map[f])
    /\ DiGraph_nodes(m.interfunction_graph) \subseteq Addr
    /\ DiGraph_edges(m.interfunction_graph) \subseteq Addr \X Addr

\* Every registry event can be taken with every combination of addresses:
\* the subscript _function_map[function_addr] that follows
\* _create_function_if_not_exist finds its key, and the event ends in a
\* normal state.
C13_RegistryTotal ==
    \A f, a, b \in Addr :
        /\ f \in DOMAIN _create_function_if_not_exist(self, f)._function_map
        /\ NormalManager(FunctionManager_return_from(self, f, a, None))
        /\ NormalManager(FunctionManager_return_from(self, f, a, IntVal(b)))
        /\ NormalManager(FunctionManager_transit_to(self, f, a, b))
        /\ NormalManager(FunctionManager_return_from_call(self, f, a, b))
        /\ \A r \in Addr : NormalManager(FunctionManager_call_to(self, f, a, b, r))
        /\ ENABLED return_from(f, a, None)
        /\ ENABLED return_from(f, a, IntVal(b))
        /\ ENABLED transit_to(f, a, b)
        /\ ENABLED return_from_call(f, a, b)
        /\ \A r \in Addr : ENABLED call_to(f, a, b, r)

\* Every mutator of every Function of the registry can be taken with every
\* argument and ends in a normal state.
C13_RecordTotal ==
    \A f \in DOMAIN function_map :
        /\ \A a \in Addr :
              /\ NormalFunction(add_block(function_map[f], a))
              /\ NormalFunction(add_return_site(function_map[f], a))
              /\ ENABLED rec_add_block(f, a)
              /\ ENABLED rec_add_return_site(f, a)
        /\ \A a, b, r \in Addr :
              /\ NormalFunction(add_call_site(function_map[f], a, b, r))
              /\ ENABLED rec_add_call_site(f, a, b, r)
        /\ \A o \in Offsets :
              /\ NormalFunction(add_argument_register(function_map[f], o))
              /\ NormalFunction(add_argument_stack_variable(function_map[f], o))
              /\ ENABLED rec_add_argument_register(f, o)
              /\ ENABLED rec_add_argument_stack_variable(f, o)
        /\ \A v \in BOOLEAN :
              /\ NormalFunction(set_bp_on_stack(function_map[f], v))
              /\ NormalFunction(set_retaddr_on_stack(function_map[f], v))
              /\ ENABLED rec_set_bp_on_stack(f, v)
              /\ ENABLED rec_set_retaddr_on_stack(f, v)
        /\ \A v \in SpDifferences :
              /\ NormalFunction(set_sp_difference(function_map[f], v))
              /\ ENABLED rec_set_sp_difference(f, v)

\* C13: totality of mutators.  In every reachable state the manager is in a
\* normal state and, while the run may go on, each of the four registry events
\* and each mutator of a registered Function is enabled for every combination
\* of address arguments and ends in a normal state.
C13_MutatorsTotal ==
    /\ NormalManager(self)
    /\ steps < MaxSteps => (C13_RegistryTotal /\ C13_RecordTotal)

\* A Function holds an edge from a block to itself and a call site whose
\* target is the Function's own entry.
C13_Witness ==
    \E f \in DOMAIN function_map :
        /\ \E x \in Addr : DiGraph_has_edge(function_map[f]._transition_graph, x, x)
        /\ \E a \in DOMAIN function_map[f]._call_sites : function_map[f]._call_sites[a][1] = f

\* A registry event on an entry that is not registered leaves a Function
\* whose only block is its entry when the event is call_to or return_from.
C14_FreshBlocks ==
    \A f \in Addr \ DOMAIN function_map : \A a, b, r \in Addr :
        /\ basic_blocks(FunctionManager_call_to(self, f, a, b, r)._function_map[f]) = {f}
        /\ basic_blocks(FunctionManager_return_from(self, f, a, None)._function_map[f]) = {f}
        /\ basic_blocks(FunctionManager_return_from(self, f, a, IntVal(b))._function_map[f]) = {f}
        /\ f \in basic_blocks(FunctionManager_transit_to(self, f, a, b)._function_map[f])
        /\ f \in basic_blocks(FunctionManager_return_from_call(self, f, a, b)._function_map[f])

\* C14: entry is its own block.  In every reachable state every Function of
\* the registry has its entry among its basic blocks, whichever event created
\* it, and a Function created by call_to or return_from has its entry as its
\* only block.
C14_EntryIsBlock ==
    /\ \A f \in DOMAIN function_map : f \in basic_blocks(function_map[f])
    /\ steps < MaxSteps => C14_FreshBlocks

\* One call_to was made and the Function it created has its entry as its only
\* block.
C14_Witness ==
    /\ steps = 1
    /\ \E f \in DOMAIN function_map :
          /\ get_call_sites(function_map[f]) # {}
          /\ basic_blocks(function_map[f]) = {f}

\* The edge from u to v is in the transition graph of fn with the tag kind,
\* and both its ends are basic blocks.
TaggedEdge(fn, u, v, kind) ==
    /\ DiGraph_has_edge(transition_graph(fn), u, v)
    /\ transition_graph(fn).edge[<<u, v>>] = [type |-> kind]
    /\ {u, v} \subseteq basic_blocks(fn)

\* transit_to and return_from_call insert the edge with their tag.
C15_Inserted ==
    \A f, a, b \in Addr :
        /\ TaggedEdge(FunctionManager_transit_to(self, f, a, b)._function_map[f],
                      a, b, "transition")
        /\ TaggedEdge(FunctionManager_return_from_call(self, f, a, b)._function_map[f],
                      a, b, "return_from_call")

\* Every edge of every transition graph carries one tag, of the two kinds.
C15_OneTag ==
    \A f \in DOMAIN function_map :
        \A e \in DiGraph_edges(function_map[f]._transition_graph) :
            /\ DOMAIN function_map[f]._transition_graph.edge[e] = {"type"}
            /\ function_map[f]._transition_graph.edge[e].type \in {"transition", "return_from_call"}
            /\ {e[1], e[2]} \subseteq basic_blocks(function_map[f])

\* C15: edge insertion.  Right after transit_to(f, from, to) the transition
\* graph of f has the edge from -> to tagged transition, right after
\* return_from_call(f, first, to) the edge first -> to tagged
\* return_from_call; both ends are basic blocks, and every edge of every
\* transition graph carries exactly one tag, transition or return_from_call.
C15_EdgeInsertion ==
    /\ C15_OneTag
    /\ steps < MaxSteps => C15_Inserted

\* A Function holds an edge of each kind.
C15_Witness ==
    \E f \in DOMAIN function_map : \E e1, e2 \in DiGraph_edges(function_map[f]._transition_graph) :
        /\ function_map[f]._transition_graph.edge[e1].type = "transition"
        /\ function_map[f]._transition_graph.edge[e2].type = "return_from_call"

\* The tag of the edge e of the transition graph of fn.
TagOf(fn, e) == transition_graph(fn).edge[e].type

\* Every edge of a transition graph keeps its tag across the step.
C16_TagKeptStep ==
    \A f \in DOMAIN function_map :
        \A e \in DiGraph_edges(function_map[f]._transition_graph) :
            /\ e \in DiGraph_edges(function_map'[f]._transition_graph)
            /\ TagOf(function_map'[f], e) = TagOf(function_map[f], e)

\* C16 as stated: edge kinds stay distinct.  An edge x -> y recorded by
\* transit_to stays in the graph with the tag transition after every later
\* event, return_from_call on the same pair included, and an edge recorded by
\* return_from_call keeps the tag return_from_call after a later transit_to.
C16_EdgeKindsKept == [][C16_TagKeptStep]_vars

\* An edge stays in its graph, and its tag changes only by the event of the
\* other kind on the same function and the same ordered pair.
C16_TagStep ==
    \A f \in DOMAIN function_map :
        \A e \in DiGraph_edges(function_map[f]._transition_graph) :
            /\ e \in DiGraph_edges(function_map'[f]._transition_graph)
            /\ TagOf(function_map'[f], e) # TagOf(function_map[f], e) =>
                  \/ /\ TagOf(function_map'[f], e) = "return_from_call"
                     /\ selfNext = FunctionManager_return_from_call(self, f, e[1], e[2])
                  \/ /\ TagOf(function_map'[f], e) = "transition"
                     /\ selfNext = FunctionManager_transit_to(self, f, e[1], e[2])

\* On an edge that is already there the later event sets the tag, and the
\* tags of the other edges stay.
C16_LastTagWins ==
    \A f \in DOMAIN function_map :
        \A e \in DiGraph_edges(function_map[f]._transition_graph) :
            LET t == FunctionManager_transit_to(self, f, e[1], e[2])._function_map[f]
                r == FunctionManager_return_from_call(self, f, e[1], e[2])._function_map[f]
            IN  /\ TagOf(t, e) = "transition"
                /\ TagOf(r, e) = "return_from_call"
                /\ \A e2 \in DiGraph_edges(function_map[f]._transition_graph) \ {e} :
                      /\ TagOf(t, e2) = TagOf(function_map[f], e2)
                      /\ TagOf(r, e2) = TagOf(function_map[f], e2)

\* C16 amended: an edge x -> y recorded by transit_to or return_from_call
\* stays in the graph after every later event and carries the tag of the last
\* of the two events made on its function and ordered pair; events on other
\* pairs or other functions leave its tag as it is.
C16_EdgeKindLastWins ==
    /\ [](steps < MaxSteps => C16_LastTagWins)
    /\ [][C16_TagStep]_vars

\* Two edge events were made on one ordered pair of one Function and the edge
\* is tagged return_from_call.
C16_Witness ==
    /\ steps = 2
    /\ \E f \in Addr : \E e \in Addr \X Addr :
          /\ DOMAIN function_map = {f}
          /\ DiGraph_edges(function_map[f]._transition_graph) = {e}
          /\ TagOf(function_map[f], e) = "return_from_call"
          /\ function_map[f]._ret_sites = {}
          /\ get_call_sites(function_map[f]) = {}

\* return_from(f, a, t) does not depend on t; it registers f when f is not
\* there and adds a to the return sites of f, and changes nothing else.
C17_Effect ==
    \A f, a \in Addr :
        LET m2  == FunctionManager_return_from(self, f, a, None)
            old == IF f \in DOMAIN function_map THEN function_map[f]
                   ELSE [Function_init(f) EXCEPT !._transition_graph.node = {f}]
        IN  /\ \A t \in Addr : FunctionManager_return_from(self, f, a, IntVal(t)) = m2
            /\ DOMAIN m2._function_map = DOMAIN function_map \cup {f}
            /\ \A g \in DOMAIN function_map \ {f} : m2._function_map[g] = function_map[g]
            /\ m2._function_map[f] = [old EXCEPT !._ret_sites = @ \cup {a}]
            /\ a \in m2._function_map[f]._ret_sites
            /\ m2.interfunction_graph = interfunction_graph

\* C17: the return-target parameter of return_from has no effect.  From every
\* reachable state return_from(f, a, t) gives the same state for every t as
\* return_from(f, a); f is registered if it was not and a is among its return
\* sites, while the transition graph of f (but for the entry node of a new
\* Function), its call sites and the inter-procedural graph are unchanged.
C17_ReturnTargetIgnored ==
    steps < MaxSteps => C17_Effect

\* One return_from was made on a Function that was not registered.
C17_Witness ==
    /\ steps = 1
    /\ \E f \in DOMAIN function_map :
          /\ function_map[f]._ret_sites # {}
          /\ basic_blocks(function_map[f]) = {f}
          /\ DiGraph_edges(interfunction_graph) = {}

\* Manager m2 differs from the current one in the Function of f at most.
OnlyRecordOf(f, m2) ==
    /\ DOMAIN m2._function_map = DOMAIN function_map \cup {f}
    /\ \A g \in DOMAIN function_map \ {f} : m2._function_map[g] = function_map[g]

\* Each event naming f changes the Function of f only; call_to alone changes
\* the inter-procedural graph, by its one edge.
C18_Events ==
    \A f, a, b \in Addr :
        /\ OnlyRecordOf(f, FunctionManager_return_from(self, f, a, IntVal(b)))
        /\ OnlyRecordOf(f, FunctionManager_transit_to(self, f, a, b))
        /\ OnlyRecordOf(f, FunctionManager_return_from_call(self, f, a, b))
        /\ FunctionManager_return_from(self, f, a, IntVal(b)).interfunction_graph = interfunction_graph
        /\ FunctionManager_transit_to(self, f, a, b).interfunction_graph = interfunction_graph
        /\ FunctionManager_return_from_call(self, f, a, b).interfunction_graph = interfunction_graph
        /\ \A r \in Addr :
              /\ OnlyRecordOf(f, FunctionManager_call_to(self, f, a, b, r))
              /\ FunctionManager_call_to(self, f, a, b, r).interfunction_graph =
                    DiGraph_add_edge(interfunction_graph, f, b, EmptyDict)

\* C18: per-function isolation.  An event naming f changes the Function of f
\* only (and, for call_to, the inter-procedural graph): the Function of every
\* other entry is unchanged and no Function but that of f is created; call_to
\* creates no Function for its target.
C18_Isolation ==
    steps < MaxSteps => C18_Events

\* The inter-procedural graph has a node for which function() returns None.
C18_Witness ==
    \E n \in DiGraph_nodes(interfunction_graph) : function(self, n) = None

\* What the completed event c wrote to its Function's call sites or return
\* sites is in the registry.
RecordedSite(c) ==
    /\ c.function_addr \in DOMAIN function_map
    /\ c.op = "call_to" => c.from_addr \in get_call_sites(function_map[c.function_addr])
    /\ c.op = "return_from" => c.from_addr \in function_map[c.function_addr]._ret_sites

\* The effect of the completed event c is in the registry: its call site and
\* its edge of the inter-procedural graph, its return site, or its edge of the
\* transition graph.
Recorded(c) ==
    /\ RecordedSite(c)
    /\ c.op = "call_to" =>
          DiGraph_has_edge(interfunction_graph, c.function_addr, c.from_addr)
    /\ c.op \in {"transit_to", "return_from_call"} =>
          DiGraph_has_edge(function_map[c.function_addr]._transition_graph, c.from_addr, c.from_addr)

\* C19 as stated: race in _create_function_if_not_exist under two callers.
\* With the creation run as one atomic get-or-create step, that is, in the
\* runs where no caller steps while the other is inside
\* _create_function_if_not_exist, no state is reachable where the effect of a
\* completed event (a call site, a return site or an edge) is lost.
C19_AtomicCreateLosesNothing ==
    ~par.split => \A c \in par.done : Recorded(c)

\* C19 amended: with the test of line 224 and the insertion of line 225 as two
\* steps a state is reachable where both callers found the entry absent and
\* the second insertion replaced the Function that a completed event of the
\* first had written to.  With the creation as one atomic step no Function is
\* ever replaced and no call site or return site of a completed event is
\* lost; an edge can still be lost, and an event can end in a KeyError, when
\* both callers are between the statements of add_node or add_edge of one
\* graph.
C19_AtomicCreateNeverReplaces ==
    ~par.split =>
        /\ ~par.replaced
        /\ \A c \in par.done : RecordedSite(c)

\* Both callers found the entry absent, and the insertion of the second has
\* just dropped what a completed event of the first had recorded.
C19_Witness ==
    /\ par.replaced
    /\ \E i \in Writers :
          /\ par.w[i].pc = "226"
          /\ par.w[i].absent
          /\ \E c \in par.done : c.function_addr = par.w[i].function_addr /\ ~Recorded(c)

====
